---- MODULE Spec2Model ----
(***************************************************************************)
(* Model of go-moi-identifiers: the 32-byte identifier layout, tags,       *)
(* flags, the kind-specific identifier types and variant derivation.       *)
(*                                                                         *)
(* The source tree holds several revisions of the same files.  A           *)
(* definition without suffix models the newest revision (strict length     *)
(* policy, Flag support tables, DeriveVariant); the suffix _rev2 marks     *)
(* the revision that uses IdentifierTag.FlagMask and trim32, and _rev1     *)
(* the first revision (AssetFlag functions, four identifier kinds).        *)
(*                                                                         *)
(* Bytes are integers 0..255, a 32-byte value is a sequence of 32 bytes,   *)
(* an error is the string of its message and "nil" is the nil error.       *)
(***************************************************************************)
EXTENDS Integers, Sequences, FiniteSets, TLC

VARIABLES id, op, arg, out, err

vars == <<id, op, arg, out, err>>

(***************************************************************************)
(* Bounds of the model.                                                    *)
(***************************************************************************)
\* kind nibbles 0..MaxKind are explored (plus nibble 15)
MaxKind == 3
\* version nibbles 0..MaxVersion are explored (plus nibble 15)
MaxVersion == 1
\* longest flag list passed to a generator or to DeriveVariant
MaxFlags == 2
\* highest minimum version of a flag made with makeFlag
MaxFlagVersion == 1
MaxIndex == 9

(***************************************************************************)
(* Byte arithmetic.                                                        *)
(***************************************************************************)
Byte == 0..255

BitAt(v, i) == (v \div (2^i)) % 2

RECURSIVE AndFrom(_, _, _)
AndFrom(a, b, i) ==
    IF i > 7 THEN 0
    ELSE BitAt(a, i) * BitAt(b, i) * (2^i) + AndFrom(a, b, i + 1)

\* a & b on bytes
ByteAnd(a, b) == AndFrom(a, b, 0)

\* byte(1) << index : a shift count of 8 or more leaves no bit in the byte
ShiftOne(index) == IF index > 7 THEN 0 ELSE 2^index

Nil == [i \in 1..32 |-> 0]

NoError == "nil"

Result(v, e) == [val |-> v, err |-> e]

PanicFlagLocation == "panic: invalid flag location: must be between 0 and 7"
PanicFlagVersion == "panic: invalid flag version: must be between 0 and 7"
PanicMissingMask == "panic: missing flag mask for tag"
PanicShortSlice == "panic: runtime error: cannot convert slice to array with length 32"

Panics == {PanicFlagLocation, PanicFlagVersion, PanicMissingMask, PanicShortSlice}

IsPanic(e) == e \in Panics

(***************************************************************************)
(* Identifier kinds and tags.                                              *)
(***************************************************************************)
KindParticipant == 0
KindAsset == 1
KindLogic == 2
maxIdentifierKind == KindLogic
identifierV0 == 0

MakeTag(kind, version) == kind * 16 + version

TagParticipantV0 == MakeTag(KindParticipant, identifierV0)
TagAssetV0 == MakeTag(KindAsset, identifierV0)
TagLogicV0 == MakeTag(KindLogic, identifierV0)

\* the first revision had a fourth kind between participant and asset
KindGuardian_rev1 == 1
KindAsset_rev1 == 2
KindLogic_rev1 == 3
maxIdentifierKind_rev1 == KindLogic_rev1
TagAssetV0_rev1 == MakeTag(KindAsset_rev1, 0)

ErrUnsupportedFlag == "unsupported flag"
ErrUnsupportedVersion == "unsupported tag version"
ErrUnsupportedKind == "unsupported tag kind"
ErrMissingHexPrefix == "missing '0x' prefix"
ErrInvalidLength == "invalid length"

\* a kind read from the lower four bits
Kind_LowNibble(tag) == tag % 16

Kind(tag) == tag \div 16

Version(tag) == tag % 16

\* the maximum supported version of each kind
kindSupport == (KindParticipant :> 0) @@ (KindAsset :> 0) @@ (KindLogic :> 0)

IdentifierTag_Validate(tag) ==
    IF Kind(tag) > maxIdentifierKind THEN ErrUnsupportedKind
    ELSE IF Version(tag) > kindSupport[Kind(tag)] THEN ErrUnsupportedVersion
    ELSE NoError

IdentifierKind_Supports_rev2(kind, version) ==
    LET supports == <<0, 0, 0>>
    IN  IF kind >= Len(supports) THEN FALSE
        ELSE version <= supports[kind + 1]

IdentifierTag_Validate_rev2(tag) ==
    IF Kind(tag) > maxIdentifierKind THEN ErrUnsupportedKind
    ELSE IF ~IdentifierKind_Supports_rev2(Kind(tag), Version(tag)) THEN ErrUnsupportedVersion
    ELSE NoError

IdentifierTag_Validate_rev1(tag) ==
    IF Version(tag) # 0 THEN ErrUnsupportedVersion
    ELSE IF Kind(tag) > maxIdentifierKind_rev1 THEN ErrUnsupportedKind
    ELSE NoError

(***************************************************************************)
(* Flags.                                                                  *)
(***************************************************************************)
Flag(index, support) == [index |-> index, support |-> support]

makeFlag(kind, index, version) ==
    IF index > 7 THEN PanicFlagLocation
    ELSE IF version > 7 THEN PanicFlagVersion
    ELSE Flag(index, (kind :> version))

Systemic == Flag(7, (KindParticipant :> 0) @@ (KindAsset :> 0) @@ (KindLogic :> 0))
AssetStateful == makeFlag(KindAsset, 0, 0)
AssetLogical == makeFlag(KindAsset, 1, 0)
LogicIntrinsic == makeFlag(KindLogic, 0, 0)
LogicExtrinsic == makeFlag(KindLogic, 1, 0)
LogicAuxiliary == makeFlag(KindLogic, 2, 0)

\* a Supports that compares the version the wrong way round
Flag_Supports_Inverted(flag, tag) ==
    IF Kind(tag) \notin DOMAIN flag.support THEN FALSE
    ELSE Version(tag) <= flag.support[Kind(tag)]

Flag_Supports(flag, tag) ==
    IF Kind(tag) \notin DOMAIN flag.support THEN FALSE
    ELSE Version(tag) >= flag.support[Kind(tag)]

getFlag(value, index) == ByteAnd(value, ShiftOne(index)) # 0

setFlag(value, index, flag) ==
    IF flag THEN value + (IF getFlag(value, index) THEN 0 ELSE ShiftOne(index))
    ELSE value - ByteAnd(value, ShiftOne(index))

\* a table in which the masks of the asset and the logic tag changed places
flagMasks_Swapped == (TagParticipantV0 :> 127) @@ (TagLogicV0 :> 124) @@ (TagAssetV0 :> 120)

\* a table that allows bit 2 on the asset tag
flagMasks_AssetAuxiliary == (TagParticipantV0 :> 127) @@ (TagLogicV0 :> 120) @@ (TagAssetV0 :> 120)

flagMasks == (TagParticipantV0 :> 127) @@ (TagLogicV0 :> 120) @@ (TagAssetV0 :> 124)

IdentifierTag_FlagMask_rev2(tag) ==
    IF tag \in DOMAIN flagMasks THEN Result(flagMasks[tag], NoError)
    ELSE Result(0, PanicMissingMask)

\* flagMasks[tag] of a Go map: the zero value for a missing key
MaskOrZero(tag) == IF tag \in DOMAIN flagMasks THEN flagMasks[tag] ELSE 0

\* first revision: an AssetFlag is a function returning (version, location)
AssetFlag_rev1(version, location) == [version |-> version, location |-> location]
AssetFlagLogical_rev1 == AssetFlag_rev1(0, 0)
AssetFlagStateful_rev1 == AssetFlag_rev1(0, 1)

isBitSet_rev1(value, loc) ==
    IF loc > 7 THEN Result(FALSE, PanicFlagLocation)
    ELSE Result(((value \div (2^loc)) % 2) # 0, NoError)

(***************************************************************************)
(* The 32-byte layout: [tag:1][flags:1][metadata:2][fingerprint:24]        *)
(* [variant:4].  Sequences are 1-based, so byte i of the source is         *)
(* element i+1 here.                                                       *)
(***************************************************************************)
Tag(v) == v[1]

Flags(v) == v[2]

Metadata(v) == <<v[3], v[4]>>

trimFingerprint(v) == SubSeq(v, 5, 28)

trimVariant(v) == SubSeq(v, 29, 32)

BigEndianUint32(b) == ((b[1] * 256 + b[2]) * 256 + b[3]) * 256 + b[4]

BigEndianUint16(b) == b[1] * 256 + b[2]

\* an encoder that writes the least significant byte first
PutUint32_LittleEndian(n) ==
    <<n % 256, (n \div 256) % 256, (n \div 65536) % 256, (n \div 16777216) % 256>>

PutUint32(n) == <<(n \div 16777216) % 256, (n \div 65536) % 256, (n \div 256) % 256, n % 256>>

PutUint16(n) == <<(n \div 256) % 256, n % 256>>

Variant(v) == BigEndianUint32(trimVariant(v))

IsVariant(v) ==
    LET variant == trimVariant(v)
    IN  ~(variant[1] = 0 /\ variant[2] = 0 /\ variant[3] = 0 /\ variant[4] = 0)

IsVariant_rev2(v) ==
    LET low4 == trimVariant(v)
    IN  low4[1] = 0 /\ low4[2] = 0 /\ low4[3] = 0 /\ low4[4] = 0

Standard(v) == BigEndianUint16(<<v[3], v[4]>>)

WrapInvalidTag(e) == "invalid tag: " \o e

(***************************************************************************)
(* Validation of the kind-specific types.                                  *)
(***************************************************************************)
\* a participant validation that tests for the kind of another type
ParticipantID_Validate_KindSlip(v) ==
    IF IdentifierTag_Validate(Tag(v)) # NoError
        THEN WrapInvalidTag(IdentifierTag_Validate(Tag(v)))
    ELSE IF Kind(Tag(v)) # KindLogic
        THEN "invalid tag: not a participant id"
    ELSE IF ByteAnd(Flags(v), MaskOrZero(Tag(v))) # 0
        THEN "invalid flags: unsupported flags for participant id"
    ELSE NoError

ParticipantID_Validate(v) ==
    IF IdentifierTag_Validate(Tag(v)) # NoError
        THEN WrapInvalidTag(IdentifierTag_Validate(Tag(v)))
    ELSE IF Kind(Tag(v)) # KindParticipant
        THEN "invalid tag: not a participant id"
    ELSE IF ByteAnd(Flags(v), MaskOrZero(Tag(v))) # 0
        THEN "invalid flags: unsupported flags for participant id"
    ELSE NoError

AssetID_Validate(v) ==
    IF IdentifierTag_Validate(Tag(v)) # NoError
        THEN WrapInvalidTag(IdentifierTag_Validate(Tag(v)))
    ELSE IF Kind(Tag(v)) # KindAsset
        THEN "invalid tag: not an asset id"
    ELSE IF ByteAnd(Flags(v), MaskOrZero(Tag(v))) # 0
        THEN "invalid flags: unsupported flags for asset id"
    ELSE NoError

LogicID_Validate(v) ==
    IF IdentifierTag_Validate(Tag(v)) # NoError
        THEN WrapInvalidTag(IdentifierTag_Validate(Tag(v)))
    ELSE IF Kind(Tag(v)) # KindLogic
        THEN "invalid tag: not a logic id"
    ELSE IF ByteAnd(Flags(v), MaskOrZero(Tag(v))) # 0
        THEN "invalid flags: unsupported flags for logic id"
    ELSE NoError

ParticipantID_Validate_rev2(v) ==
    IF IdentifierTag_Validate_rev2(Tag(v)) # NoError
        THEN WrapInvalidTag(IdentifierTag_Validate_rev2(Tag(v)))
    ELSE IF Kind(Tag(v)) # KindLogic
        THEN "invalid tag: not a participant identifier"
    ELSE IF IsPanic(IdentifierTag_FlagMask_rev2(Tag(v)).err)
        THEN IdentifierTag_FlagMask_rev2(Tag(v)).err
    ELSE IF ByteAnd(Flags(v), IdentifierTag_FlagMask_rev2(Tag(v)).val) # 0
        THEN "invalid flags: malformed flags for participant identifier"
    ELSE NoError

AssetID_Validate_rev2(v) ==
    IF IdentifierTag_Validate_rev2(Tag(v)) # NoError
        THEN WrapInvalidTag(IdentifierTag_Validate_rev2(Tag(v)))
    ELSE IF Kind(Tag(v)) # KindAsset
        THEN "invalid tag: not an asset identifier"
    ELSE IF IsPanic(IdentifierTag_FlagMask_rev2(Tag(v)).err)
        THEN IdentifierTag_FlagMask_rev2(Tag(v)).err
    ELSE IF ByteAnd(Flags(v), IdentifierTag_FlagMask_rev2(Tag(v)).val) # 0
        THEN "invalid flags: malformed flags for asset identifier"
    ELSE NoError

AssetID_Validate_rev1(v) ==
    IF IdentifierTag_Validate_rev1(Tag(v)) # NoError
        THEN WrapInvalidTag(IdentifierTag_Validate_rev1(Tag(v)))
    ELSE IF Kind(Tag(v)) # KindAsset_rev1
        THEN "invalid tag: not an asset identifier"
    ELSE IF Version(Tag(v)) = 0
        THEN IF ByteAnd(Flags(v), 63) # 0
                THEN "invalid flags: malformed flags for asset identifier v0"
             ELSE NoError
    ELSE ErrUnsupportedVersion

\* the validating constructors: the value and no error, or Nil and the error
Validated(v, e) == IF e # NoError THEN Result(Nil, e) ELSE Result(v, NoError)

NewParticipantID(data) == Validated(data, ParticipantID_Validate(data))

NewAssetID(data) == Validated(data, AssetID_Validate(data))

NewLogicID(data) == Validated(data, LogicID_Validate(data))

NewParticipantID_rev2(data) == Validated(data, ParticipantID_Validate_rev2(data))

NewAssetID_rev2(data) == Validated(data, AssetID_Validate_rev2(data))

NewAssetID_rev1(data) == Validated(data, AssetID_Validate_rev1(data))

AsParticipantID(v) == NewParticipantID(v)

AsAssetID(v) == NewAssetID(v)

AsLogicID(v) == NewLogicID(v)

AsIdentifier(v) == v

(***************************************************************************)
(* Flag accessors of the kind-specific types.                              *)
(***************************************************************************)
ParticipantID_Flag(v, flag) ==
    IF ~Flag_Supports(flag, Tag(v)) THEN FALSE
    ELSE getFlag(Flags(v), flag.index)

AssetID_Flag(v, flag) ==
    IF ~Flag_Supports(flag, Tag(v)) THEN FALSE
    ELSE getFlag(Flags(v), flag.index)

LogicID_Flag(v, flag) ==
    IF ~Flag_Supports(flag, Tag(v)) THEN FALSE
    ELSE getFlag(Flags(v), flag.index)

AssetID_Flag_rev1(v, flag) ==
    IF Version(Tag(v)) > flag.version THEN Result(FALSE, NoError)
    ELSE isBitSet_rev1(Flags(v), flag.location)

(***************************************************************************)
(* Inputs of the model.                                                    *)
(***************************************************************************)
Nibbles(max) == (0..max) \cup {15}

Tags == {MakeTag(k, v) : k \in Nibbles(MaxKind), v \in Nibbles(MaxVersion)}

\* flag bytes: every combination of bits 0, 1, 2 and 7, with bits 3..6 all
\* clear or all set (0x00, 0x80, 0x01, ..., 0x78, 0x7F, 0xFF)
FlagBytes == {b \in Byte : ByteAnd(b, 120) \in {0, 120}}

Fingerprints ==
    { [i \in 1..24 |-> 0],
      <<1, 2, 3, 4, 5, 6, 7, 8, 17, 18, 19, 20, 21, 22, 23, 24,
        33, 34, 35, 36, 37, 38, 39, 40>> }

\* metadata, fingerprint and variant of the explored values
Tails ==
    { <<0, 0>> \o [i \in 1..24 |-> 0] \o <<0, 0, 0, 0>>,
      <<0, 16>> \o <<1, 2, 3, 4, 5, 6, 7, 8, 17, 18, 19, 20, 21, 22, 23, 24,
                     33, 34, 35, 36, 37, 38, 39, 40>> \o <<0, 0, 0, 66>> }

Values == {<<t, f>> \o r : t \in Tags, f \in FlagBytes, r \in Tails}

\* the flag catalogue, and flags made with makeFlag for a later version
Catalogue ==
    {Systemic, AssetStateful, AssetLogical, LogicIntrinsic, LogicExtrinsic, LogicAuxiliary}

MadeFlags ==
    {makeFlag(k, i, v) : k \in {KindParticipant, KindAsset, KindLogic},
                         i \in {0, 3}, v \in 1..MaxFlagVersion}

FlagUniverse == Catalogue \cup MadeFlags

AssetFlags_rev1 ==
    {AssetFlagLogical_rev1, AssetFlagStateful_rev1} \cup
    {AssetFlag_rev1(v, 2) : v \in 1..MaxFlagVersion}

NoArg == "-"

(***************************************************************************)
(* Specification Spec: a caller holds a 32-byte value id and applies one   *)
(* operation at a time to it; Return hands control back to the caller.     *)
(***************************************************************************)
Init ==
    /\ id \in Values
    /\ op = "idle"
    /\ arg = NoArg
    /\ out = NoArg
    /\ err = NoError

Call(name, input, r) ==
    /\ op = "idle"
    /\ op' = name
    /\ arg' = input
    /\ out' = r.val
    /\ err' = r.err
    /\ UNCHANGED id

DoNewParticipantID == Call("NewParticipantID", NoArg, NewParticipantID(id))

DoNewAssetID == Call("NewAssetID", NoArg, NewAssetID(id))

DoNewLogicID == Call("NewLogicID", NoArg, NewLogicID(id))

DoNewParticipantID_rev2 == Call("NewParticipantID_rev2", NoArg, NewParticipantID_rev2(id))

DoNewAssetID_rev2 == Call("NewAssetID_rev2", NoArg, NewAssetID_rev2(id))

DoNewAssetID_rev1 == Call("NewAssetID_rev1", NoArg, NewAssetID_rev1(id))

DoAsParticipantID == Call("AsParticipantID", NoArg, AsParticipantID(id))

DoAsAssetID == Call("AsAssetID", NoArg, AsAssetID(id))

DoAsLogicID == Call("AsLogicID", NoArg, AsLogicID(id))

DoParticipantID_Flag ==
    /\ op = "idle"
    /\ \E f \in FlagUniverse :
        Call("ParticipantID.Flag", f, Result(ParticipantID_Flag(id, f), NoError))

DoAssetID_Flag ==
    /\ op = "idle"
    /\ \E f \in FlagUniverse :
        Call("AssetID.Flag", f, Result(AssetID_Flag(id, f), NoError))

DoLogicID_Flag ==
    /\ op = "idle"
    /\ \E f \in FlagUniverse :
        Call("LogicID.Flag", f, Result(LogicID_Flag(id, f), NoError))

DoAssetID_Flag_rev1 ==
    /\ op = "idle"
    /\ \E f \in AssetFlags_rev1 :
        Call("AssetID.Flag_rev1", f, AssetID_Flag_rev1(id, f))

DoFlag_Supports ==
    /\ op = "idle"
    /\ \E f \in FlagUniverse :
        Call("Flag.Supports", f, Result(Flag_Supports(f, Tag(id)), NoError))

DoIdentifierTag_FlagMask_rev2 ==
    Call("IdentifierTag.FlagMask_rev2", NoArg, IdentifierTag_FlagMask_rev2(Tag(id)))

DoIdentifierTag_Kind ==
    Call("IdentifierTag.Kind", Tag(id), Result(Kind(Tag(id)), NoError))

DoIdentifierTag_Version ==
    Call("IdentifierTag.Version", Tag(id), Result(Version(Tag(id)), NoError))

DoIdentifier_IsVariant ==
    Call("Identifier.IsVariant", NoArg, Result(IsVariant(id), NoError))

DoIdentifier_IsVariant_rev2 ==
    Call("Identifier.IsVariant_rev2", NoArg, Result(IsVariant_rev2(id), NoError))

DoParticipantID_IsVariant ==
    Call("ParticipantID.IsVariant", NoArg, Result(IsVariant(id), NoError))

DoAssetID_IsVariant ==
    Call("AssetID.IsVariant", NoArg, Result(IsVariant(id), NoError))

DoAssetID_IsVariant_rev2 ==
    Call("AssetID.IsVariant_rev2", NoArg, Result(Variant(id) # 0, NoError))

DoLogicID_IsVariant ==
    Call("LogicID.IsVariant", NoArg, Result(IsVariant(id), NoError))

Return ==
    /\ op \notin {"idle", "derived"}
    /\ op' = "idle"
    /\ arg' = NoArg
    /\ out' = NoArg
    /\ err' = NoError
    /\ UNCHANGED id

Next ==
    \/ DoNewParticipantID
    \/ DoNewAssetID
    \/ DoNewLogicID
    \/ DoNewParticipantID_rev2
    \/ DoNewAssetID_rev2
    \/ DoNewAssetID_rev1
    \/ DoAsParticipantID
    \/ DoAsAssetID
    \/ DoAsLogicID
    \/ DoParticipantID_Flag
    \/ DoAssetID_Flag
    \/ DoLogicID_Flag
    \/ DoAssetID_Flag_rev1
    \/ DoFlag_Supports
    \/ DoIdentifierTag_FlagMask_rev2
    \/ DoIdentifierTag_Kind
    \/ DoIdentifierTag_Version
    \/ DoIdentifier_IsVariant
    \/ DoIdentifier_IsVariant_rev2
    \/ DoParticipantID_IsVariant
    \/ DoAssetID_IsVariant
    \/ DoAssetID_IsVariant_rev2
    \/ DoLogicID_IsVariant
    \/ Return

Spec == Init /\ [][Next]_vars

(***************************************************************************)
(* Claims checked under Spec.                                              *)
(***************************************************************************)
ParticipantOps == {"NewParticipantID", "AsParticipantID", "NewParticipantID_rev2"}

AssetOps == {"NewAssetID", "AsAssetID", "NewAssetID_rev2"}

LogicOps == {"NewLogicID", "AsLogicID"}

ConstructorOps == ParticipantOps \cup AssetOps \cup LogicOps

\* the kind a validating constructor is for
KindOfOp(o) ==
    IF o \in ParticipantOps THEN KindParticipant
    ELSE IF o \in AssetOps THEN KindAsset
    ELSE KindLogic

\* the acceptance condition of the claim, stated on the bytes
AcceptedAs(v, k) ==
    /\ Kind(Tag(v)) = k
    /\ Version(Tag(v)) = 0
    /\ ByteAnd(Flags(v), flagMasks[Tag(v)]) = 0

\* C1: every validating constructor New<K>ID / As<K>ID returns (d, no error)
\* exactly when d's kind nibble is K, its version nibble is 0 and
\* d[1] AND FlagMask(tag) = 0, and otherwise an error with the all-zero value.
C1_ValidatingConstructor ==
    op \in ConstructorOps =>
        IF AcceptedAs(id, KindOfOp(op))
            THEN out = id /\ err = NoError
            ELSE out = Nil /\ err # NoError

\* C7: the all-zero value is never a valid kind-specific identifier:
\* NewParticipantID, NewAssetID and NewLogicID each return an error for it.
C7_NilNeverValid ==
    (id = Nil /\ op \in {"NewParticipantID", "NewAssetID", "NewLogicID"}) => err # NoError

\* C7 as amended: NewAssetID and NewLogicID reject the all-zero value as a
\* value of the wrong kind, and NewParticipantID accepts it (0x00 is the
\* participant v0 tag and no flag bit is set), returning it without error.
C7_NilValidOnlyAsParticipant ==
    id = Nil =>
        /\ op = "NewAssetID" => (err = "invalid tag: not an asset id" /\ out = Nil)
        /\ op = "NewLogicID" => (err = "invalid tag: not a logic id" /\ out = Nil)
        /\ op = "NewParticipantID" => (err = NoError /\ out = Nil)

C7_Witness == id = Nil /\ op = "NewParticipantID" /\ err = NoError

\* the four classes of validation error, whatever the wording of a revision
ErrorClass(e) ==
    IF e = NoError THEN "none"
    ELSE IF e = WrapInvalidTag(ErrUnsupportedKind) THEN "unsupported kind"
    ELSE IF e = WrapInvalidTag(ErrUnsupportedVersion) \/ e = ErrUnsupportedVersion
        THEN "unsupported version"
    ELSE IF e \in {"invalid tag: not a participant id", "invalid tag: not an asset id",
                   "invalid tag: not a logic id", "invalid tag: not a participant identifier",
                   "invalid tag: not an asset identifier"}
        THEN "wrong kind"
    ELSE IF e \in {"invalid flags: unsupported flags for participant id",
                   "invalid flags: unsupported flags for asset id",
                   "invalid flags: unsupported flags for logic id",
                   "invalid flags: malformed flags for participant identifier",
                   "invalid flags: malformed flags for asset identifier",
                   "invalid flags: malformed flags for asset identifier v0"}
        THEN "malformed flags"
    ELSE "other"

\* the first failing check in the order the claim gives, for a type of kind
\* k whose highest known kind is maxKind and whose disallowed bits are mask
FirstFailure(v, k, maxKind, mask) ==
    IF Kind(Tag(v)) > maxKind THEN "unsupported kind"
    ELSE IF Version(Tag(v)) > 0 THEN "unsupported version"
    ELSE IF Kind(Tag(v)) # k THEN "wrong kind"
    ELSE IF ByteAnd(Flags(v), mask) # 0 THEN "malformed flags"
    ELSE "none"

\* C8: validation reports the first failing check in the order unsupported
\* kind, unsupported version, wrong kind, malformed flags, for every value
\* and every kind-specific type (tag 0xFF gives unsupported kind).
C8_ValidationOrder ==
    /\ op \in ConstructorOps =>
          ErrorClass(err) =
              FirstFailure(id, KindOfOp(op), maxIdentifierKind,
                           flagMasks[MakeTag(KindOfOp(op), 0)])
    /\ op = "NewAssetID_rev1" =>
          ErrorClass(err) = FirstFailure(id, KindAsset_rev1, maxIdentifierKind_rev1, 63)

\* what the claims mean by "f supports the tag t"
SupportsTag(f, t) == \E k \in DOMAIN f.support : k = Kind(t) /\ f.support[k] <= Version(t)

\* C9: Flag(f) of a kind-specific identifier is false whenever f does not
\* support the identifier's tag and otherwise the bit of the flags byte at
\* f's index; a flag supported from version m reads the raw bit on every tag
\* of its kind with version >= m.
C9_FlagAccessor ==
    /\ op \in {"ParticipantID.Flag", "AssetID.Flag", "LogicID.Flag"} =>
          out = (SupportsTag(arg, Tag(id)) /\ BitAt(Flags(id), arg.index) = 1)
    /\ (op = "AssetID.Flag_rev1" /\ Kind(Tag(id)) = KindAsset_rev1) =>
          /\ err = NoError
          /\ out = (Version(Tag(id)) >= arg.version /\ BitAt(Flags(id), arg.location) = 1)

\* the one kind of each flag of the catalogue other than Systemic
OwnKind(f) == IF f \in {AssetStateful, AssetLogical} THEN KindAsset ELSE KindLogic

\* C10: f.Supports(t) is true exactly when Kind(t) is a key of f's support
\* table and Version(t) is at least the version stored for it; Systemic
\* supports the v0 tag of all three kinds, every other flag of the catalogue
\* supports tags of exactly one kind.
C10_FlagScoping ==
    op = "Flag.Supports" =>
        /\ out = SupportsTag(arg, Tag(id))
        /\ (arg = Systemic /\ Tag(id) \in {TagParticipantV0, TagAssetV0, TagLogicV0}) => out
        /\ (arg \in Catalogue \ {Systemic} /\ out) => Kind(Tag(id)) = OwnKind(arg)
        /\ (arg \in Catalogue \ {Systemic} /\ Tag(id) = MakeTag(OwnKind(arg), 0)) => out

C10_Witness ==
    /\ op = "Flag.Supports"
    /\ arg \in MadeFlags
    /\ Version(Tag(id)) = 1
    /\ out

(***************************************************************************)
(* The generators.  A generator is a free function: it builds the four     *)
(* metadata bytes, appends the 24-byte account or fingerprint and the      *)
(* big-endian variant.                                                     *)
(***************************************************************************)
\* the zero value Flag{}: index 0 and no support table
ZeroFlag == Flag(0, <<>>)

ByteOr(a, b) == a + b - ByteAnd(a, b)

\* the loop that attaches the flags to metadata[1], starting at flags[i]
\* a loop that passes over an unsupported flag instead of failing
RECURSIVE attachFlags_Skip(_, _, _, _)
attachFlags_Skip(flags, i, tag, value) ==
    IF i > Len(flags) THEN Result(value, NoError)
    ELSE IF ~Flag_Supports(flags[i], tag) THEN attachFlags_Skip(flags, i + 1, tag, value)
    ELSE attachFlags_Skip(flags, i + 1, tag, setFlag(value, flags[i].index, TRUE))

RECURSIVE attachFlags(_, _, _, _)
attachFlags(flags, i, tag, value) ==
    IF i > Len(flags) THEN Result(value, NoError)
    ELSE IF ~Flag_Supports(flags[i], tag) THEN Result(0, ErrUnsupportedFlag)
    ELSE attachFlags(flags, i + 1, tag, setFlag(value, flags[i].index, TRUE))

\* the same loop of the first revision: a flag is (minver, loc)
RECURSIVE attachFlags_rev1(_, _, _)
attachFlags_rev1(flagOpts, i, value) ==
    IF i > Len(flagOpts) THEN Result(value, NoError)
    ELSE IF 0 < flagOpts[i].version THEN Result(0, ErrUnsupportedFlag)
    ELSE attachFlags_rev1(flagOpts, i + 1, ByteOr(value, ShiftOne(flagOpts[i].location)))

\* [metadata][account][variant]
Buffer(tag, flags, standard, account, variant) ==
    <<tag, flags>> \o PutUint16(standard) \o account \o PutUint32(variant)

GenerateParticipantIDv0(account, variant, flags) ==
    LET attached == attachFlags(flags, 1, TagParticipantV0, 0)
    IN  IF attached.err # NoError THEN Result(Nil, attached.err)
        ELSE Result(Buffer(TagParticipantV0, attached.val, 0, account, variant), NoError)

GenerateAssetIDv0(account, variant, standard, flags) ==
    LET attached == attachFlags(flags, 1, TagAssetV0, 0)
    IN  IF attached.err # NoError THEN Result(Nil, attached.err)
        ELSE Result(Buffer(TagAssetV0, attached.val, standard, account, variant), NoError)

GenerateLogicIDv0(fingerprint, variant, flags) ==
    LET attached == attachFlags(flags, 1, TagLogicV0, 0)
    IN  IF attached.err # NoError THEN Result(Nil, attached.err)
        ELSE Result(Buffer(TagLogicV0, attached.val, 0, fingerprint, variant), NoError)

GenerateAssetIDv0_rev1(account, variant, standard, flagOpts) ==
    LET attached == attachFlags_rev1(flagOpts, 1, 0)
    IN  IF attached.err # NoError THEN Result(Nil, attached.err)
        ELSE Result(Buffer(TagAssetV0_rev1, attached.val, standard, account, variant), NoError)

\* generator inputs
Variants == {0, 66, 16909060}

Standards == {0, 1, 4660}

\* lists of at most MaxFlags flags drawn from S
FlagLists(S) == UNION {[1..n -> S] : n \in 0..MaxFlags}

GeneratorFlags == FlagUniverse \cup {ZeroFlag}

GenInput(fingerprint, variant, standard, flags) ==
    [fingerprint |-> fingerprint, variant |-> variant, standard |-> standard, flags |-> flags]

InitGen ==
    /\ id = Nil
    /\ op = "idle"
    /\ arg = NoArg
    /\ out = NoArg
    /\ err = NoError

DoGenerateParticipantIDv0 ==
    /\ op = "idle"
    /\ \E a \in Fingerprints, v \in Variants, fl \in FlagLists(GeneratorFlags) :
        Call("GenerateParticipantIDv0", GenInput(a, v, 0, fl), GenerateParticipantIDv0(a, v, fl))

DoGenerateAssetIDv0 ==
    /\ op = "idle"
    /\ \E a \in Fingerprints, v \in Variants, s \in Standards, fl \in FlagLists(GeneratorFlags) :
        Call("GenerateAssetIDv0", GenInput(a, v, s, fl), GenerateAssetIDv0(a, v, s, fl))

DoGenerateLogicIDv0 ==
    /\ op = "idle"
    /\ \E a \in Fingerprints, v \in Variants, fl \in FlagLists(GeneratorFlags) :
        Call("GenerateLogicIDv0", GenInput(a, v, 0, fl), GenerateLogicIDv0(a, v, fl))

\* the elementary operations on the flags byte, for indexes in and out of
\* 0..7
FlagIndexes == 0..MaxIndex

BitInput(value, index, flag) == [value |-> value, index |-> index, flag |-> flag]

DogetFlag ==
    /\ op = "idle"
    /\ \E v \in FlagBytes, i \in FlagIndexes :
        Call("getFlag", BitInput(v, i, FALSE), Result(getFlag(v, i), NoError))

DosetFlag ==
    /\ op = "idle"
    /\ \E v \in FlagBytes, i \in FlagIndexes, b \in BOOLEAN :
        Call("setFlag", BitInput(v, i, b), Result(setFlag(v, i, b), NoError))

DoisBitSet_rev1 ==
    /\ op = "idle"
    /\ \E v \in FlagBytes, i \in FlagIndexes :
        Call("isBitSet_rev1", BitInput(v, i, FALSE), isBitSet_rev1(v, i))

\* makeFlag for indexes and versions on both sides of 7 and of 15
MakeInput(kind, index, version) == [kind |-> kind, index |-> index, version |-> version]

DomakeFlag ==
    /\ op = "idle"
    /\ \E k \in {KindParticipant, KindAsset, KindLogic}, i \in FlagIndexes,
          v \in {0, 1, 7, 8, 15, 16, 20} :
        Call("makeFlag", MakeInput(k, i, v),
             IF i > 7 \/ v > 7 THEN Result(NoArg, makeFlag(k, i, v))
             ELSE Result(makeFlag(k, i, v), NoError))

DoGenerateAssetIDv0_rev1 ==
    /\ op = "idle"
    /\ \E a \in Fingerprints, v \in Variants, s \in Standards, fl \in FlagLists(AssetFlags_rev1) :
        Call("GenerateAssetIDv0_rev1", GenInput(a, v, s, fl), GenerateAssetIDv0_rev1(a, v, s, fl))

NextGen ==
    \/ DoGenerateParticipantIDv0
    \/ DoGenerateAssetIDv0
    \/ DoGenerateLogicIDv0
    \/ DoGenerateAssetIDv0_rev1
    \/ DogetFlag
    \/ DosetFlag
    \/ DoisBitSet_rev1
    \/ DomakeFlag
    \/ Return

SpecGen == InitGen /\ [][NextGen]_vars

\* C2: whenever a generator returns no error, the value it returns passes
\* the Validate of its own type, so that New<K>ID of it returns it unchanged.
C2_GeneratorValidity ==
    /\ (op = "GenerateParticipantIDv0" /\ err = NoError) =>
          (ParticipantID_Validate(out) = NoError /\ NewParticipantID(out) = Result(out, NoError))
    /\ (op = "GenerateAssetIDv0" /\ err = NoError) =>
          (AssetID_Validate(out) = NoError /\ NewAssetID(out) = Result(out, NoError))
    /\ (op = "GenerateLogicIDv0" /\ err = NoError) =>
          (LogicID_Validate(out) = NoError /\ NewLogicID(out) = Result(out, NoError))
    /\ (op = "GenerateAssetIDv0_rev1" /\ err = NoError) =>
          (AssetID_Validate_rev1(out) = NoError /\ NewAssetID_rev1(out) = Result(out, NoError))

(***************************************************************************)
(* Identifier.DeriveVariant.  The receiver is passed by value: the method  *)
(* works on a copy and the caller's identifier is not written.             *)
(***************************************************************************)
\* one of the two flag loops, starting at flags[i]: every flag is checked
\* against the tag and then written into derived[1] with the given value
\* a loop that writes every flag without asking whether it supports the tag
RECURSIVE deriveFlags_Unchecked(_, _, _, _, _)
deriveFlags_Unchecked(flags, i, tag, value, bit) ==
    IF i > Len(flags) THEN Result(value, NoError)
    ELSE deriveFlags_Unchecked(flags, i + 1, tag, setFlag(value, flags[i].index, bit), bit)

RECURSIVE deriveFlags(_, _, _, _, _)
deriveFlags(flags, i, tag, value, bit) ==
    IF i > Len(flags) THEN Result(value, NoError)
    ELSE IF ~Flag_Supports(flags[i], tag) THEN Result(0, ErrUnsupportedFlag)
    ELSE deriveFlags(flags, i + 1, tag, setFlag(value, flags[i].index, bit), bit)

\* a derivation that clears the unset flags before it sets the set flags
DeriveVariant_UnsetFirst(v, variant, set, unset) ==
    LET cleared == deriveFlags(unset, 1, Tag(v), Flags(v), FALSE)
        raised == deriveFlags(set, 1, Tag(v), cleared.val, TRUE)
    IN  IF cleared.err # NoError THEN Result(Nil, cleared.err)
        ELSE IF raised.err # NoError THEN Result(Nil, raised.err)
        ELSE Result(<<Tag(v), raised.val>> \o SubSeq(v, 3, 28) \o PutUint32(variant), NoError)

\* a derivation that does not check the flags of the unset list
DeriveVariant_UncheckedUnset(v, variant, set, unset) ==
    LET raised == deriveFlags(set, 1, Tag(v), Flags(v), TRUE)
        cleared == deriveFlags(unset, 1, MakeTag(15, 15), raised.val, FALSE)
    IN  IF raised.err # NoError THEN Result(Nil, raised.err)
        ELSE Result(<<Tag(v), cleared.val>> \o SubSeq(v, 3, 28) \o PutUint32(variant), NoError)

\* a derivation that refuses a source that is already a variant
DeriveVariant_ZeroSourceOnly(v, variant, set, unset) ==
    LET raised == deriveFlags(set, 1, Tag(v), Flags(v), TRUE)
        cleared == deriveFlags(unset, 1, Tag(v), raised.val, FALSE)
    IN  IF Variant(v) # 0 THEN Result(Nil, "cannot derive from a variant")
        ELSE IF raised.err # NoError THEN Result(Nil, raised.err)
        ELSE IF cleared.err # NoError THEN Result(Nil, cleared.err)
        ELSE Result(<<Tag(v), cleared.val>> \o SubSeq(v, 3, 28) \o PutUint32(variant), NoError)

DeriveVariant(v, variant, set, unset) ==
    LET raised == deriveFlags(set, 1, Tag(v), Flags(v), TRUE)
        cleared == deriveFlags(unset, 1, Tag(v), raised.val, FALSE)
    IN  IF raised.err # NoError THEN Result(Nil, raised.err)
        ELSE IF cleared.err # NoError THEN Result(Nil, cleared.err)
        ELSE Result(<<Tag(v), cleared.val>> \o SubSeq(v, 3, 28) \o PutUint32(variant), NoError)

\* the identifiers variants are derived from
DeriveSources ==
    {<<t, f>> \o r : t \in {TagParticipantV0, TagAssetV0, TagLogicV0, MakeTag(KindAsset, 1)},
                     f \in {0, 131}, r \in Tails}

DeriveFlags == {Systemic, AssetStateful, AssetLogical, LogicIntrinsic}

\* the variants asked for
DeriveVariants == {0, 66, 16909060}

\* the inputs of a call; origin is the identifier the chain of derivations
\* started from
DeriveInput(origin, source, variant, set, unset) ==
    [origin |-> origin, source |-> source, variant |-> variant, set |-> set, unset |-> unset]

InitDerive ==
    /\ id \in DeriveSources
    /\ op = "idle"
    /\ arg = NoArg
    /\ out = NoArg
    /\ err = NoError

\* the first derivation of a chain, from one of the sources
DoDeriveVariant ==
    /\ op = "idle"
    /\ id \in DeriveSources
    /\ \E v \in DeriveVariants, set \in FlagLists(DeriveFlags), unset \in FlagLists(DeriveFlags) :
        Call("DeriveVariant", DeriveInput(id, id, v, set, unset), DeriveVariant(id, v, set, unset))

\* the caller goes on with the derived identifier:
\* derivedTwo, err := derivedOne.DeriveVariant(...)
DoAdoptDerived ==
    /\ op = "DeriveVariant"
    /\ err = NoError
    /\ op' = "derived"
    /\ id' = out
    /\ arg' = [origin |-> arg.origin]
    /\ out' = NoArg
    /\ err' = NoError

\* flag lists of the later derivations of a chain
ChainLists == {<<>>} \cup {<<f>> : f \in DeriveFlags}

DoDeriveVariant_Chained ==
    /\ op = "derived"
    /\ \E v \in DeriveVariants \ {66}, set \in ChainLists, unset \in ChainLists :
        /\ op' = "DeriveVariant"
        /\ arg' = DeriveInput(arg.origin, id, v, set, unset)
        /\ out' = DeriveVariant(id, v, set, unset).val
        /\ err' = DeriveVariant(id, v, set, unset).err
        /\ UNCHANGED id

NextDerive ==
    \/ DoDeriveVariant
    \/ DoAdoptDerived
    \/ DoDeriveVariant_Chained
    \/ Return

SpecDerive == InitDerive /\ [][NextDerive]_vars

\* the flags of a list, and the indices they occupy
FlagsOf(list) == {list[i] : i \in 1..Len(list)}

IndicesOf(list) == {list[i].index : i \in 1..Len(list)}

\* C3: if any flag of the set list or of the unset list does not support the
\* identifier's tag, wherever it stands, DeriveVariant returns
\* ErrUnsupportedFlag with the all-zero identifier and the source identifier
\* is the same as before the call.
C3_DeriveAllOrNothing ==
    (/\ op = "DeriveVariant"
     /\ \E f \in FlagsOf(arg.set) \cup FlagsOf(arg.unset) : ~SupportsTag(f, Tag(arg.source)))
        => (err = ErrUnsupportedFlag /\ out = Nil /\ id = arg.source)

\* an unsupported flag in the unset list behind supported flags in both lists
C3_Witness ==
    /\ op = "DeriveVariant"
    /\ err = ErrUnsupportedFlag
    /\ Tag(arg.source) = TagLogicV0
    /\ arg.set = <<Systemic>>
    /\ arg.unset = <<LogicIntrinsic, AssetStateful>>

\* C4: a successful DeriveVariant changes only what was asked: bytes 28..31
\* are the big-endian variant, every bit of an unset flag is 0, every bit of
\* a flag set and not unset is 1, every other bit of the flags byte is the
\* source's, and tag, metadata and fingerprint are the source's.
C4_DeriveFrame ==
    (op = "DeriveVariant" /\ err = NoError) =>
        /\ Len(out) = 32
        /\ <<out[29], out[30], out[31], out[32]>> = PutUint32(arg.variant)
        /\ BigEndianUint32(trimVariant(out)) = arg.variant
        /\ \A i \in 0..7 :
              BitAt(Flags(out), i) =
                  IF i \in IndicesOf(arg.unset) THEN 0
                  ELSE IF i \in IndicesOf(arg.set) THEN 1
                  ELSE BitAt(Flags(arg.source), i)
        /\ Tag(out) = Tag(arg.source)
        /\ \A i \in 3..28 : out[i] = arg.source[i]

\* a flag both set and unset, with another one set and a third one cleared
C4_Witness ==
    /\ op = "DeriveVariant"
    /\ err = NoError
    /\ Tag(arg.source) = TagAssetV0
    /\ Flags(arg.source) = 131
    /\ arg.set = <<AssetLogical>>
    /\ arg.unset = <<AssetLogical, Systemic>>
    /\ Flags(out) = 1

(***************************************************************************)
(* Text, hex and byte-slice codecs.  A text or a string is a sequence of   *)
(* one-character strings, a byte slice a sequence of bytes of any length.  *)
(***************************************************************************)
HexDigits == <<"0", "1", "2", "3", "4", "5", "6", "7", "8", "9", "a", "b", "c", "d", "e", "f">>

UpperDigits == <<"0", "1", "2", "3", "4", "5", "6", "7", "8", "9", "A", "B", "C", "D", "E", "F">>

prefix0xString == <<"0", "x">>

ErrHexLength == "encoding/hex: odd length hex string"

\* the code point of the message is left out
InvalidByteError(c) == "encoding/hex: invalid byte: " \o c

\* the value of a hexadecimal digit of either case, 255 for any other character
fromHexChar(c) ==
    IF \E i \in 1..16 : HexDigits[i] = c THEN (CHOOSE i \in 1..16 : HexDigits[i] = c) - 1
    ELSE IF \E i \in 1..16 : UpperDigits[i] = c THEN (CHOOSE i \in 1..16 : UpperDigits[i] = c) - 1
    ELSE 255

\* an encoder that writes the low nibble before the high nibble
hex_EncodeToString_Swapped(b) ==
    [i \in 1..(2 * Len(b)) |->
        IF i % 2 = 1 THEN HexDigits[(b[(i + 1) \div 2] % 16) + 1]
        ELSE HexDigits[(b[i \div 2] \div 16) + 1]]

hex_EncodeToString(b) ==
    [i \in 1..(2 * Len(b)) |->
        IF i % 2 = 1 THEN HexDigits[(b[(i + 1) \div 2] \div 16) + 1]
        ELSE HexDigits[(b[i \div 2] % 16) + 1]]

\* pairs are decoded from the left; the first character that is no digit
\* is reported, and an odd length only after its last character is checked
hex_DecodeString(str) ==
    LET n == Len(str) \div 2
        bad == {i \in 1..(2 * n) : fromHexChar(str[i]) > 15}
        first == CHOOSE i \in bad : \A j \in bad : i <= j
    IN  IF bad # {} THEN Result(<<>>, InvalidByteError(str[first]))
        ELSE IF Len(str) % 2 = 1
            THEN IF fromHexChar(str[Len(str)]) > 15
                    THEN Result(<<>>, InvalidByteError(str[Len(str)]))
                    ELSE Result(<<>>, ErrHexLength)
        ELSE Result([i \in 1..n |-> fromHexChar(str[2 * i - 1]) * 16 + fromHexChar(str[2 * i])],
                    NoError)

has0xPrefixBytes(value) == Len(value) >= 2 /\ SubSeq(value, 1, 2) = prefix0xString

trim0xPrefixBytes(value) ==
    IF has0xPrefixBytes(value) THEN SubSeq(value, 3, Len(value)) ELSE value

trim0xPrefixString(value) == trim0xPrefixBytes(value)

decodeHexString(str) == hex_DecodeString(trim0xPrefixString(str))

\* the conversion [32]byte(slice): the first 32 bytes, a run-time panic for
\* a shorter slice
ToArray32(slice) ==
    IF Len(slice) < 32 THEN Result(NoArg, PanicShortSlice)
    ELSE Result(SubSeq(slice, 1, 32), NoError)

\* a marshal32 that writes upper-case digits
marshal32_Upper(data) ==
    Result(prefix0xString \o
               [i \in 1..(2 * Len(data)) |->
                   IF i % 2 = 1 THEN UpperDigits[(data[(i + 1) \div 2] \div 16) + 1]
                   ELSE UpperDigits[(data[i \div 2] % 16) + 1]],
           NoError)

marshal32(data) == Result(prefix0xString \o hex_EncodeToString(data), NoError)

unmarshal32(data) ==
    LET trimmed == trim0xPrefixBytes(data)
        decoded == decodeHexString(trimmed)
    IN  IF ~has0xPrefixBytes(data) THEN Result(Nil, ErrMissingHexPrefix)
        ELSE IF Len(trimmed) # 32 * 2 THEN Result(Nil, ErrInvalidLength)
        ELSE IF decoded.err # NoError THEN Result(Nil, decoded.err)
        ELSE ToArray32(decoded.val)

trim32(data) ==
    LET kept == IF Len(data) > 32 THEN SubSeq(data, Len(data) - 31, Len(data)) ELSE data
    IN  [i \in 1..(32 - Len(kept)) |-> 0] \o kept

AddressLength == 32

NilAddress == [i \in 1..AddressLength |-> 0]

\* a constructor that keeps the first 32 bytes and pads behind the data
NewAddressFromBytes_KeepFirst(data) ==
    LET kept == IF Len(data) > AddressLength THEN SubSeq(data, 1, AddressLength) ELSE data
    IN  [i \in 1..AddressLength |-> IF i <= Len(kept) THEN kept[i] ELSE 0]

NewAddressFromBytes(data) ==
    LET kept == IF Len(data) > AddressLength
                    THEN SubSeq(data, Len(data) - AddressLength + 1, Len(data))
                    ELSE data
        offset == AddressLength - Len(kept)
    IN  [i \in 1..AddressLength |-> IF i > offset THEN kept[i - offset] ELSE 0]

NewAddressFromHex(data) ==
    LET decoded == decodeHexString(data)
    IN  IF decoded.err # NoError THEN Result(NilAddress, decoded.err)
        ELSE Result(NewAddressFromBytes(decoded.val), NoError)

\* hex.Decode(dst, src): the bytes of the pairs of digits in front of the
\* first character that is no digit are written to dst before the error is
\* returned
hex_Decode(dst, src) ==
    LET n == Len(src) \div 2
        bad == {i \in 1..n : fromHexChar(src[2 * i - 1]) > 15 \/ fromHexChar(src[2 * i]) > 15}
        stop == IF bad = {} THEN n + 1 ELSE CHOOSE i \in bad : \A j \in bad : i <= j
        written == [i \in 1..Len(dst) |->
                       IF i < stop
                           THEN fromHexChar(src[2 * i - 1]) * 16 + fromHexChar(src[2 * i])
                           ELSE dst[i]]
    IN  Result(SubSeq(written, 1, Len(dst)),
               IF stop <= n
                   THEN InvalidByteError(IF fromHexChar(src[2 * stop - 1]) > 15
                                             THEN src[2 * stop - 1] ELSE src[2 * stop])
               ELSE IF Len(src) % 2 = 1
                   THEN IF fromHexChar(src[Len(src)]) > 15
                            THEN InvalidByteError(src[Len(src)]) ELSE ErrHexLength
               ELSE NoError)

\* Address.UnmarshalText: the value of the receiver after the call, and the
\* error
Address_UnmarshalText(addr, text) ==
    LET trimmed == trim0xPrefixBytes(text)
    IN  IF ~has0xPrefixBytes(text) THEN Result(addr, ErrMissingHexPrefix)
        ELSE IF Len(trimmed) # AddressLength * 2 THEN Result(addr, ErrInvalidLength)
        ELSE hex_Decode(addr, trimmed)

\* the error of the decoder of the wire format for an element that is not a
\* 32-byte value
ErrIncompatibleWire == "incompatible wire: unexpected wiretype"

\* depolorize32: a null element is the all-zero value
depolorize32(buffer) ==
    IF buffer[1] = "null" THEN Result(Nil, NoError)
    ELSE IF buffer[1] # "bytes" \/ Len(buffer[2]) # 32 THEN Result(Nil, ErrIncompatibleWire)
    ELSE Result(buffer[2], NoError)

LogicID_Depolorize(buffer) ==
    LET decoded == depolorize32(buffer)
    IN  IF decoded.err # NoError THEN decoded
        ELSE Validated(decoded.val, LogicID_Validate(decoded.val))

\* must: the value, or a panic with the error
must(r) == IF r.err # NoError THEN Result(NoArg, "panic: " \o r.err) ELSE r

\* Address() of the string-typed AssetID and LogicID
AssetID_Address_legacy(asset) ==
    IF Len(asset) < 64 THEN Result(NilAddress, NoError)
    ELSE must(NewAddressFromHex(SubSeq(asset, Len(asset) - 63, Len(asset))))

LogicID_Address_legacy(logic) ==
    IF Len(logic) < 64 THEN Result(NilAddress, NoError)
    ELSE must(NewAddressFromHex(SubSeq(logic, Len(logic) - 63, Len(logic))))

Bytes(v) == v

Hex(v) == prefix0xString \o hex_EncodeToString(v)

\* New<K>IDFromBytes: the length check, the conversion, the validation
NewParticipantIDFromBytes(data) ==
    IF Len(data) # 32 THEN Result(Nil, "invalid length: participant id must be 32 bytes")
    ELSE IF ToArray32(data).err # NoError THEN ToArray32(data)
    ELSE NewParticipantID(ToArray32(data).val)

\* a byte-slice constructor that pads or trims instead of checking the length
NewAssetIDFromBytes_Lenient(data) == NewAssetID(trim32(data))

NewAssetIDFromBytes(data) ==
    IF Len(data) # 32 THEN Result(Nil, "invalid length: asset id must be 32 bytes")
    ELSE IF ToArray32(data).err # NoError THEN ToArray32(data)
    ELSE NewAssetID(ToArray32(data).val)

NewLogicIDFromBytes(data) ==
    IF Len(data) # 32 THEN Result(Nil, "invalid length: logic id must be 32 bytes")
    ELSE IF ToArray32(data).err # NoError THEN ToArray32(data)
    ELSE NewLogicID(ToArray32(data).val)

\* the older constructor pads or trims instead of checking the length
NewAssetIDFromBytes_rev2(data) == NewAssetID_rev2(trim32(data))

\* New<K>IDFromHex: decode, then the byte-slice constructor
NewParticipantIDFromHex(data) ==
    LET decoded == decodeHexString(data)
    IN  IF decoded.err # NoError THEN Result(Nil, decoded.err)
        ELSE NewParticipantIDFromBytes(decoded.val)

NewAssetIDFromHex(data) ==
    LET decoded == decodeHexString(data)
    IN  IF decoded.err # NoError THEN Result(Nil, decoded.err)
        ELSE NewAssetIDFromBytes(decoded.val)

NewLogicIDFromHex(data) ==
    LET decoded == decodeHexString(data)
    IN  IF decoded.err # NoError THEN Result(Nil, decoded.err)
        ELSE NewLogicIDFromBytes(decoded.val)

\* <K>.UnmarshalText: decode, validate, and only then write the receiver;
\* Identifier and the older AssetID do not validate
Identifier_UnmarshalText(data) ==
    LET decoded == unmarshal32(data)
    IN  IF decoded.err # NoError THEN Result(NoArg, decoded.err)
        ELSE Result(decoded.val, NoError)

ParticipantID_UnmarshalText(data) ==
    LET decoded == unmarshal32(data)
    IN  IF decoded.err # NoError THEN Result(NoArg, decoded.err)
        ELSE IF ParticipantID_Validate(decoded.val) # NoError
            THEN Result(NoArg, ParticipantID_Validate(decoded.val))
        ELSE Result(decoded.val, NoError)

AssetID_UnmarshalText(data) ==
    LET decoded == unmarshal32(data)
    IN  IF decoded.err # NoError THEN Result(NoArg, decoded.err)
        ELSE IF AssetID_Validate(decoded.val) # NoError
            THEN Result(NoArg, AssetID_Validate(decoded.val))
        ELSE Result(decoded.val, NoError)

LogicID_UnmarshalText(data) ==
    LET decoded == unmarshal32(data)
    IN  IF decoded.err # NoError THEN Result(NoArg, decoded.err)
        ELSE IF LogicID_Validate(decoded.val) # NoError
            THEN Result(NoArg, LogicID_Validate(decoded.val))
        ELSE Result(decoded.val, NoError)

AssetID_UnmarshalText_rev2(data) ==
    LET decoded == unmarshal32(data)
    IN  IF decoded.err # NoError THEN Result(NoArg, decoded.err)
        ELSE Result(decoded.val, NoError)

\* receivers and inputs of the codecs
TextValues == {v \in Values : Flags(v) \in {0, 1, 128, 255}}

TextSeeds == {v \in TextValues : Flags(v) = 1 /\ Tag(v) \in {TagAssetV0, TagLogicV0} /\ v[32] = 66}

Upper(text) ==
    [i \in 1..Len(text) |->
        IF i > 2 /\ fromHexChar(text[i]) < 16 THEN UpperDigits[fromHexChar(text[i]) + 1]
        ELSE text[i]]

\* texts that are not the 0x-prefixed 64 digit form of a value
Malformed(v) ==
    {<<>>,
     prefix0xString,
     hex_EncodeToString(v),
     SubSeq(Hex(v), 1, 65),
     SubSeq(Hex(v), 1, 64),
     Hex(v) \o <<"0">>,
     Hex(v) \o <<"0", "0">>,
     [Hex(v) EXCEPT ![9] = "g"],
     [Hex(v) EXCEPT ![66] = "x"],
     prefix0xString \o [i \in 1..64 |-> "z"],
     prefix0xString \o SubSeq(Hex(v), 1, 64),
     prefix0xString \o Hex(v)}

Texts(v) == {Hex(v), Upper(Hex(v))} \cup {Hex(w) : w \in TextSeeds} \cup Malformed(v)

Slices(v) == {Bytes(v), <<>>, SubSeq(v, 1, 31), v \o <<7>>, <<7>> \o v}

InitText ==
    /\ id \in TextValues
    /\ op = "idle"
    /\ arg = NoArg
    /\ out = NoArg
    /\ err = NoError

\* a call on a pointer receiver: the receiver is written on success only
Store(name, input, r) ==
    /\ op = "idle"
    /\ op' = name
    /\ arg' = input
    /\ out' = NoArg
    /\ err' = r.err
    /\ id' = IF r.err = NoError THEN r.val ELSE id

DoIdentifier_UnmarshalText ==
    /\ op = "idle"
    /\ \E t \in Texts(id) : Store("Identifier.UnmarshalText", t, Identifier_UnmarshalText(t))

DoParticipantID_UnmarshalText ==
    /\ op = "idle"
    /\ \E t \in Texts(id) : Store("ParticipantID.UnmarshalText", t, ParticipantID_UnmarshalText(t))

DoAssetID_UnmarshalText ==
    /\ op = "idle"
    /\ \E t \in Texts(id) : Store("AssetID.UnmarshalText", t, AssetID_UnmarshalText(t))

DoLogicID_UnmarshalText ==
    /\ op = "idle"
    /\ \E t \in Texts(id) : Store("LogicID.UnmarshalText", t, LogicID_UnmarshalText(t))

DoAssetID_UnmarshalText_rev2 ==
    /\ op = "idle"
    /\ \E t \in Texts(id) : Store("AssetID.UnmarshalText_rev2", t, AssetID_UnmarshalText_rev2(t))

DoNewParticipantIDFromBytes ==
    /\ op = "idle"
    /\ \E d \in Slices(id) : Call("NewParticipantIDFromBytes", d, NewParticipantIDFromBytes(d))

DoNewAssetIDFromBytes ==
    /\ op = "idle"
    /\ \E d \in Slices(id) : Call("NewAssetIDFromBytes", d, NewAssetIDFromBytes(d))

DoNewLogicIDFromBytes ==
    /\ op = "idle"
    /\ \E d \in Slices(id) : Call("NewLogicIDFromBytes", d, NewLogicIDFromBytes(d))

DoNewAssetIDFromBytes_rev2 ==
    /\ op = "idle"
    /\ \E d \in Slices(id) : Call("NewAssetIDFromBytes_rev2", d, NewAssetIDFromBytes_rev2(d))

\* identifier strings of the string-typed AssetID and LogicID: an address
\* alone, behind a header, behind '0x', and strings that are too short or
\* hold a character that is no hexadecimal digit
LegacyStrings(v) ==
    {hex_EncodeToString(v),
     <<"0", "8", "0", "0", "0", "0", "1", "0">> \o hex_EncodeToString(v),
     Hex(v),
     <<>>,
     SubSeq(hex_EncodeToString(v), 1, 63),
     <<"z", "z">>,
     SubSeq([hex_EncodeToString(v) EXCEPT ![9] = "g"], 1, 64),
     <<"0", "8">> \o [hex_EncodeToString(v) EXCEPT ![64] = "z"],
     SubSeq([i \in 1..64 |-> "z"], 1, 64)}

DoAssetID_Address_legacy ==
    /\ op = "idle"
    /\ \E a \in LegacyStrings(id) : Call("AssetID.Address_legacy", a, AssetID_Address_legacy(a))

DoLogicID_Address_legacy ==
    /\ op = "idle"
    /\ \E a \in LegacyStrings(id) : Call("LogicID.Address_legacy", a, LogicID_Address_legacy(a))

\* texts of the value held and malformed texts of other values
AddressTexts(v) == Texts(v) \cup UNION {Malformed(w) : w \in TextSeeds}

DoAddress_UnmarshalText ==
    /\ op = "idle"
    /\ \E t \in AddressTexts(id) :
        /\ op' = "Address.UnmarshalText"
        /\ arg' = t
        /\ out' = NoArg
        /\ err' = Address_UnmarshalText(id, t).err
        /\ id' = Address_UnmarshalText(id, t).val

\* elements of the wire format: null, the bytes of a value, bytes of
\* another length
Buffers(v) ==
    {<<"null">>, <<"bytes", v>>, <<"bytes", SubSeq(v, 1, 4)>>, <<"word", v>>}
        \cup {<<"bytes", w>> : w \in TextSeeds}

DoLogicID_Depolorize ==
    /\ op = "idle"
    /\ \E b \in Buffers(id) : Store("LogicID.Depolorize", b, LogicID_Depolorize(b))

DoNewAddressFromBytes ==
    /\ op = "idle"
    /\ \E d \in Slices(id) : Call("NewAddressFromBytes", d, Result(NewAddressFromBytes(d), NoError))

Dotrim32 ==
    /\ op = "idle"
    /\ \E d \in Slices(id) : Call("trim32", d, Result(trim32(d), NoError))

DoNewParticipantIDFromHex ==
    /\ op = "idle"
    /\ \E t \in Texts(id) : Call("NewParticipantIDFromHex", t, NewParticipantIDFromHex(t))

DoNewAssetIDFromHex ==
    /\ op = "idle"
    /\ \E t \in Texts(id) : Call("NewAssetIDFromHex", t, NewAssetIDFromHex(t))

DoNewLogicIDFromHex ==
    /\ op = "idle"
    /\ \E t \in Texts(id) : Call("NewLogicIDFromHex", t, NewLogicIDFromHex(t))

DoAsIdentifier == Call("AsIdentifier", NoArg, Result(AsIdentifier(id), NoError))

DoAsIdentifier_AsParticipantID ==
    Call("AsIdentifier.AsParticipantID", NoArg, AsParticipantID(AsIdentifier(id)))

DoAsIdentifier_AsAssetID ==
    Call("AsIdentifier.AsAssetID", NoArg, AsAssetID(AsIdentifier(id)))

DoAsIdentifier_AsLogicID ==
    Call("AsIdentifier.AsLogicID", NoArg, AsLogicID(AsIdentifier(id)))

\* MarshalText of the four types is marshal32 of the receiver
DoMarshalText == Call("MarshalText", NoArg, marshal32(id))

\* Hex, and String, which returns Hex
DoHex == Call("Hex", NoArg, Result(Hex(id), NoError))

\* the receiver is marshalled to text and the text unmarshalled into it
DoIdentifier_MarshalUnmarshal ==
    Store("Identifier.MarshalText.UnmarshalText", id, Identifier_UnmarshalText(marshal32(id).val))

DoParticipantID_MarshalUnmarshal ==
    Store("ParticipantID.MarshalText.UnmarshalText", id,
          ParticipantID_UnmarshalText(marshal32(id).val))

DoAssetID_MarshalUnmarshal ==
    Store("AssetID.MarshalText.UnmarshalText", id, AssetID_UnmarshalText(marshal32(id).val))

DoLogicID_MarshalUnmarshal ==
    Store("LogicID.MarshalText.UnmarshalText", id, LogicID_UnmarshalText(marshal32(id).val))

NextText ==
    \/ DoIdentifier_UnmarshalText
    \/ DoParticipantID_UnmarshalText
    \/ DoAssetID_UnmarshalText
    \/ DoLogicID_UnmarshalText
    \/ DoAssetID_UnmarshalText_rev2
    \/ DoNewParticipantIDFromBytes
    \/ DoNewAssetIDFromBytes
    \/ DoNewLogicIDFromBytes
    \/ DoNewAssetIDFromBytes_rev2
    \/ DoNewParticipantIDFromHex
    \/ DoNewAssetIDFromHex
    \/ DoNewLogicIDFromHex
    \/ DoAsIdentifier
    \/ DoAsIdentifier_AsParticipantID
    \/ DoAsIdentifier_AsAssetID
    \/ DoAsIdentifier_AsLogicID
    \/ DoMarshalText
    \/ DoHex
    \/ DoIdentifier_MarshalUnmarshal
    \/ DoParticipantID_MarshalUnmarshal
    \/ DoAssetID_MarshalUnmarshal
    \/ DoLogicID_MarshalUnmarshal
    \/ DoAddress_UnmarshalText
    \/ DoLogicID_Depolorize
    \/ DoNewAddressFromBytes
    \/ Dotrim32
    \/ DoAssetID_Address_legacy
    \/ DoLogicID_Address_legacy
    \/ Return

SpecText == InitText /\ [][NextText]_vars

UnmarshalOps ==
    {"Identifier.UnmarshalText", "ParticipantID.UnmarshalText", "AssetID.UnmarshalText",
     "LogicID.UnmarshalText", "AssetID.UnmarshalText_rev2"}

FromBytesOps ==
    {"NewParticipantIDFromBytes", "NewAssetIDFromBytes", "NewLogicIDFromBytes",
     "NewAssetIDFromBytes_rev2"}

FromHexOps == {"NewParticipantIDFromHex", "NewAssetIDFromHex", "NewLogicIDFromHex"}

\* C5: no input makes a non-Must entry point panic: UnmarshalText of the
\* four types and New<K>IDFromBytes / New<K>IDFromHex return a value or an
\* error for every text, byte slice or string.
C5_NoPanic ==
    op \in UnmarshalOps \cup FromBytesOps \cup FromHexOps => ~IsPanic(err)

\* the kind of the type a decoding constructor or a conversion is for
KindOfCodec(o) ==
    IF o \in {"NewParticipantIDFromBytes", "NewParticipantIDFromHex", "AsIdentifier.AsParticipantID"}
        THEN KindParticipant
    ELSE IF o \in {"NewAssetIDFromBytes", "NewAssetIDFromBytes_rev2", "NewAssetIDFromHex",
                   "AsIdentifier.AsAssetID"}
        THEN KindAsset
    ELSE KindLogic

\* C6: for every value x accepted by a kind-specific validating constructor,
\* New<K>IDFromBytes(x.Bytes()), New<K>IDFromHex(x.Hex()) and
\* x.AsIdentifier().As<K>ID() each return x without error; AsIdentifier
\* never fails and keeps all 32 bytes.
C6_RoundTrip ==
    /\ (op \in FromBytesOps /\ arg = Bytes(id) /\ AcceptedAs(id, KindOfCodec(op)))
          => (out = id /\ err = NoError)
    /\ (op \in FromHexOps /\ arg = Hex(id) /\ AcceptedAs(id, KindOfCodec(op)))
          => (out = id /\ err = NoError)
    /\ (op \in {"AsIdentifier.AsParticipantID", "AsIdentifier.AsAssetID", "AsIdentifier.AsLogicID"}
        /\ AcceptedAs(id, KindOfCodec(op)))
          => (out = id /\ err = NoError)
    /\ op = "AsIdentifier" => (err = NoError /\ Len(out) = 32 /\ \A i \in 1..32 : out[i] = id[i])

\* the hex form of an accepted logic identifier with digits above 9 decoded
C6_Witness ==
    /\ op = "NewLogicIDFromHex"
    /\ AcceptedAs(id, KindLogic)
    /\ Flags(id) = 128
    /\ id[32] = 66
    /\ arg = Hex(id)
    /\ out = id
    /\ err = NoError

(***************************************************************************)
(* The flag-mask table against the flag catalogue.                         *)
(***************************************************************************)
KnownTags == {TagParticipantV0, TagAssetV0, TagLogicV0}

\* the bit positions a mask allows: its unset bits
Allowed(mask) == {i \in 0..7 : BitAt(mask, i) = 0}

\* C11: for each known tag t, bit i of flagMasks[t] is 0 exactly when some
\* flag of the catalogue with index i supports t; the table holds
\* 0b01111111, 0b01111100 and 0b01111000 for the tags 0x00, 0x10 and 0x20.
C11_MaskAgreesWithCatalogue ==
    (op = "IdentifierTag.FlagMask_rev2" /\ Tag(id) \in KnownTags) =>
        /\ err = NoError
        /\ \A i \in 0..7 :
              (BitAt(out, i) = 0) <=>
                  (\E f \in Catalogue : f.index = i /\ SupportsTag(f, Tag(id)))
        /\ out = CASE Tag(id) = 0 -> 127 [] Tag(id) = 16 -> 124 [] Tag(id) = 32 -> 120

C11_Witness ==
    /\ op = "IdentifierTag.FlagMask_rev2"
    /\ Tag(id) = TagLogicV0
    /\ Allowed(out) = {0, 1, 2, 7}

\* the flags of the catalogue that belong to one kind only
Exclusive == Catalogue \ {Systemic}

\* C12: for every known tag, no allowed bit position is used by a flag
\* exclusive to a different kind, and the only bit position allowed for more
\* than one kind is the Systemic bit, index 7.
C12_NoForeignPosition ==
    (op = "IdentifierTag.FlagMask_rev2" /\ Tag(id) \in KnownTags) =>
        /\ \A i \in Allowed(out) :
              ~\E f \in Exclusive : f.index = i /\ OwnKind(f) # Kind(Tag(id))
        /\ \A t \in KnownTags \ {Tag(id)} :
              \A i \in Allowed(out) \cap Allowed(IdentifierTag_FlagMask_rev2(t).val) : i = 7

\* C12 as amended: every allowed position of a known tag other than index 7
\* is the position of a flag exclusive to the tag's own kind, a position
\* used only by flags of other kinds is not allowed, and index 7 is allowed.
C12_OwnPositionsOnly ==
    (op = "IdentifierTag.FlagMask_rev2" /\ Tag(id) \in KnownTags) =>
        /\ \A i \in Allowed(out) \ {7} :
              \E f \in Exclusive : f.index = i /\ OwnKind(f) = Kind(Tag(id))
        /\ \A i \in 0..7 :
              (/\ \E f \in Exclusive : f.index = i
               /\ \A f \in Exclusive : f.index = i => OwnKind(f) # Kind(Tag(id)))
                  => i \notin Allowed(out)
        /\ 7 \in Allowed(out)

\* bit 0 is allowed for the asset tag and is also the position of LogicIntrinsic
C12_Witness ==
    /\ op = "IdentifierTag.FlagMask_rev2"
    /\ Tag(id) = TagAssetV0
    /\ LogicIntrinsic.index \in Allowed(out)
    /\ LogicAuxiliary.index \notin Allowed(out)

(***************************************************************************)
(* Generators: unsupported flags and the accessors of the result.          *)
(***************************************************************************)
NewestGenerators == {"GenerateParticipantIDv0", "GenerateAssetIDv0", "GenerateLogicIDv0"}

\* the version-0 tag of the kind a generator builds
TagOfGenerator(o) ==
    IF o = "GenerateParticipantIDv0" THEN TagParticipantV0
    ELSE IF o = "GenerateAssetIDv0" THEN TagAssetV0
    ELSE TagLogicV0

\* C13: if any flag of the list does not support the kind's version-0 tag,
\* at any position and whatever precedes it, Generate<K>IDv0 returns
\* ErrUnsupportedFlag together with the all-zero value.
C13_GeneratorAtomic ==
    /\ (/\ op \in NewestGenerators
        /\ \E f \in FlagsOf(arg.flags) : ~SupportsTag(f, TagOfGenerator(op)))
          => (err = ErrUnsupportedFlag /\ out = Nil)
    /\ (/\ op = "GenerateAssetIDv0_rev1"
        /\ \E f \in FlagsOf(arg.flags) : f.version > 0)
          => (err = ErrUnsupportedFlag /\ out = Nil)

\* an unsupported flag behind a supported one
C13_Witness ==
    /\ op = "GenerateAssetIDv0"
    /\ arg.flags = <<AssetLogical, LogicAuxiliary>>
    /\ err = ErrUnsupportedFlag
    /\ out = Nil

\* Flag(f) of the type a generator builds
FlagOfGenerated(o, v, f) ==
    IF o = "GenerateParticipantIDv0" THEN ParticipantID_Flag(v, f)
    ELSE IF o = "GenerateAssetIDv0" THEN AssetID_Flag(v, f)
    ELSE LogicID_Flag(v, f)

\* C14: the accessors of a generated identifier return the inputs: Tag() is
\* the kind's v0 tag, the fingerprint accessor the 24 input bytes, Variant()
\* the input variant, Standard() the input standard (zero bytes 2..3 for
\* participant and logic), and Flag(f), for a flag f supported by the kind,
\* is true exactly when f occurs in the input list.
C14_GeneratedAccessors ==
    (op \in NewestGenerators /\ err = NoError) =>
        /\ Tag(out) = TagOfGenerator(op)
        /\ trimFingerprint(out) = arg.fingerprint
        /\ Variant(out) = arg.variant
        /\ trimVariant(out) = <<(arg.variant \div 16777216) % 256, (arg.variant \div 65536) % 256,
                                (arg.variant \div 256) % 256, arg.variant % 256>>
        /\ Standard(out) = arg.standard
        /\ op # "GenerateAssetIDv0" => (out[3] = 0 /\ out[4] = 0)
        /\ \A f \in Catalogue :
              SupportsTag(f, TagOfGenerator(op)) =>
                  (FlagOfGenerated(op, out, f) <=> f \in FlagsOf(arg.flags))

\* a duplicated flag, a non-zero standard and a variant of four distinct bytes
C14_Witness ==
    /\ op = "GenerateAssetIDv0"
    /\ err = NoError
    /\ arg.flags = <<AssetLogical, AssetLogical>>
    /\ arg.standard = 4660
    /\ arg.variant = 16909060
    /\ Flags(out) = 2

(***************************************************************************)
(* UnmarshalText: validation of the decoded value, order of the errors.    *)
(***************************************************************************)
IsHexDigit(c) == \E i \in 1..16 : c = HexDigits[i] \/ c = UpperDigits[i]

\* '0x' followed by exactly 64 hexadecimal digits
WellFormed(text) ==
    /\ Len(text) = 66
    /\ text[1] = "0"
    /\ text[2] = "x"
    /\ \A i \in 3..66 : IsHexDigit(text[i])

\* the 32 bytes a well-formed text stands for
BytesOfText(text) ==
    [i \in 1..32 |-> fromHexChar(text[2 * i + 1]) * 16 + fromHexChar(text[2 * i + 2])]

\* C15: UnmarshalText of ParticipantID, AssetID and LogicID re-validates:
\* on a well-formed text it succeeds only if the decoded bytes pass the
\* type's Validate and otherwise returns the error of the byte constructor;
\* Identifier.UnmarshalText accepts any 32 bytes.
C15_UnmarshalRevalidates ==
    WellFormed(arg) =>
        /\ op = "ParticipantID.UnmarshalText" =>
              (/\ err = NewParticipantID(BytesOfText(arg)).err
               /\ err = NoError => (id = BytesOfText(arg) /\ AcceptedAs(id, KindParticipant)))
        /\ op = "AssetID.UnmarshalText" =>
              (/\ err = NewAssetID(BytesOfText(arg)).err
               /\ err = NoError => (id = BytesOfText(arg) /\ AcceptedAs(id, KindAsset)))
        /\ op = "AssetID.UnmarshalText_rev2" =>
              (/\ err = NewAssetID_rev2(BytesOfText(arg)).err
               /\ err = NoError => (id = BytesOfText(arg) /\ AcceptedAs(id, KindAsset)))
        /\ op = "LogicID.UnmarshalText" =>
              (/\ err = NewLogicID(BytesOfText(arg)).err
               /\ err = NoError => (id = BytesOfText(arg) /\ AcceptedAs(id, KindLogic)))
        /\ op = "Identifier.UnmarshalText" => (err = NoError /\ id = BytesOfText(arg))

\* C16: UnmarshalText of every identifier type classifies malformed text in
\* a fixed order: no '0x' prefix gives ErrMissingHexPrefix whatever the
\* length, otherwise a remainder of a length other than 64 gives
\* ErrInvalidLength, otherwise a remainder with a character that is no
\* hexadecimal digit gives the error of the hex decoder unchanged.
C16_UnmarshalErrorOrder ==
    op \in UnmarshalOps =>
        IF ~(Len(arg) >= 2 /\ arg[1] = "0" /\ arg[2] = "x") THEN err = ErrMissingHexPrefix
        ELSE IF Len(arg) - 2 # 64 THEN err = ErrInvalidLength
        ELSE IF \E i \in 3..66 : ~IsHexDigit(arg[i])
            THEN err = hex_DecodeString(SubSeq(arg, 3, 66)).err
        ELSE TRUE

(***************************************************************************)
(* MarshalText and the length policy of the byte-slice constructors.       *)
(***************************************************************************)
MarshalUnmarshalOps ==
    {"Identifier.MarshalText.UnmarshalText", "ParticipantID.MarshalText.UnmarshalText",
     "AssetID.MarshalText.UnmarshalText", "LogicID.MarshalText.UnmarshalText"}

\* whether a value is valid for the type whose text round trip o is
ValidFor(o, v) ==
    IF o = "Identifier.MarshalText.UnmarshalText" THEN TRUE
    ELSE IF o = "ParticipantID.MarshalText.UnmarshalText" THEN AcceptedAs(v, KindParticipant)
    ELSE IF o = "AssetID.MarshalText.UnmarshalText" THEN AcceptedAs(v, KindAsset)
    ELSE AcceptedAs(v, KindLogic)

LengthErrors ==
    {"invalid length: participant id must be 32 bytes",
     "invalid length: asset id must be 32 bytes",
     "invalid length: logic id must be 32 bytes"}

\* the number of bytes a string of hexadecimal digits, with or without the
\* '0x' prefix, decodes to; -1 if it does not decode
DecodedLen(text) ==
    LET digits == IF Len(text) >= 2 /\ text[1] = "0" /\ text[2] = "x"
                      THEN SubSeq(text, 3, Len(text)) ELSE text
    IN  IF Len(digits) % 2 = 0 /\ \A i \in 1..Len(digits) : IsHexDigit(digits[i])
            THEN Len(digits) \div 2 ELSE -1

IsVariantOps ==
    {"Identifier.IsVariant", "Identifier.IsVariant_rev2", "ParticipantID.IsVariant",
     "AssetID.IsVariant", "AssetID.IsVariant_rev2", "LogicID.IsVariant"}

\* C19: for the generic Identifier and for ParticipantID, AssetID and
\* LogicID, IsVariant() is true if and only if Variant() is not zero, that
\* is if and only if at least one of bytes 28..31 is not zero.
C19_IsVariantIffNonZero ==
    op \in IsVariantOps =>
        /\ out = (Variant(id) # 0)
        /\ out = (\E i \in 29..32 : id[i] # 0)

\* C20: DeriveVariant rejects a derivation whose requested variant is the
\* current variant of the source identifier, with the error 'cannot derive
\* with the same variant', even when no flags are given.
C20_SameVariantRejected ==
    (op = "DeriveVariant" /\ arg.variant = Variant(arg.source))
        => err = "cannot derive with the same variant"

(***************************************************************************)
(* The variants DeriveVariant derives from and to.                         *)
(***************************************************************************)
\* every flag of both lists of the call supports the tag of the source
AllSupported ==
    \A f \in FlagsOf(arg.set) \cup FlagsOf(arg.unset) : SupportsTag(f, Tag(arg.source))

C22_NonZeroTargetOnly ==
    op = "DeriveVariant" =>
        /\ arg.variant = 0 => err # NoError
        /\ err = NoError => IsVariant(out)

(***************************************************************************)
(* The two nibbles of a tag.                                               *)
(***************************************************************************)
\* the number whose bits are bits from..from+3 of byte b
NibbleAt(b, from) ==
    BitAt(b, from) + 2 * BitAt(b, from + 1) + 4 * BitAt(b, from + 2) + 8 * BitAt(b, from + 3)

\* C23: for every tag byte t, Kind(t) is the high nibble and Version(t) the
\* low nibble, extraction never fails, (Kind(t) << 4) | Version(t) = t, and
\* the three tag constants are 0x00, 0x10 and 0x20.
C23_TagConsistency ==
    /\ op = "IdentifierTag.Kind" =>
          /\ err = NoError
          /\ out = NibbleAt(arg, 4)
          /\ out * 16 + Version(arg) = arg
    /\ op = "IdentifierTag.Version" =>
          /\ err = NoError
          /\ out = NibbleAt(arg, 0)
          /\ Kind(arg) * 16 + out = arg
    /\ TagParticipantV0 = 0
    /\ TagAssetV0 = 16
    /\ TagLogicV0 = 32

\* the kind of a tag whose two nibbles differ and are not zero
C23_Witness ==
    /\ op = "IdentifierTag.Kind"
    /\ arg = 33
    /\ out = 2

HexTail(str) ==
    /\ Len(str) >= 64
    /\ \A i \in (Len(str) - 63)..Len(str) : IsHexDigit(str[i])

\* the 32 bytes the last 64 characters of a string stand for
BytesOfTail(str) ==
    [i \in 1..32 |-> fromHexChar(str[Len(str) - 64 + 2 * i - 1]) * 16
                         + fromHexChar(str[Len(str) - 64 + 2 * i])]

\* C25: for the string-typed AssetID and LogicID, Address() returns
\* NilAddress for every invalid identifier string (too short, or not
\* hexadecimal), the address encoded in the last 64 characters otherwise,
\* and does not panic on an invalid string.
C25_AddressOfInvalidString ==
    op \in {"AssetID.Address_legacy", "LogicID.Address_legacy"} =>
        /\ err = NoError
        /\ out = IF HexTail(arg) THEN BytesOfTail(arg) ELSE NilAddress

(***************************************************************************)
(* Chains of derivations.                                                  *)
(***************************************************************************)
\* the validating constructor of kind k accepts v
Constructs(k, v) ==
    IF k = KindParticipant THEN NewParticipantID(v).err = NoError
    ELSE IF k = KindAsset THEN NewAssetID(v).err = NoError
    ELSE NewLogicID(v).err = NoError

\* v is what the chain that started at origin may have arrived at
Preserves(origin, v) ==
    /\ \A k \in {KindParticipant, KindAsset, KindLogic} : Constructs(k, origin) => Constructs(k, v)
    /\ Tag(v) = Tag(origin)
    /\ Metadata(v) = Metadata(origin)
    /\ \A i \in 3..28 : v[i] = origin[i]

\* C26: validity is closed under derivation: starting from any value
\* accepted by New<K>ID, after any finite sequence of successful
\* DeriveVariant calls the current value is still accepted by New<K>ID of
\* the same kind, and its tag, metadata bytes 2..3 and fingerprint are those
\* of the starting value.
C26_DerivationClosed ==
    /\ (op = "DeriveVariant" /\ err = NoError) => Preserves(arg.origin, out)
    /\ op = "derived" => Preserves(arg.origin, id)

\* a later derivation of a chain from a valid asset identifier, with other
\* flags than the first identifier had
C26_Witness ==
    /\ op = "DeriveVariant"
    /\ err = NoError
    /\ Constructs(KindAsset, arg.origin)
    /\ Flags(arg.origin) = 0
    /\ Variant(arg.origin) = 66
    /\ Flags(arg.source) = 3
    /\ Variant(arg.source) = 0
    /\ arg.unset = <<AssetStateful>>
    /\ Flags(out) = 2
    /\ Constructs(KindAsset, out)

(***************************************************************************)
(* One kind per value.                                                     *)
(***************************************************************************)
\* C27: kinds are mutually exclusive: every 32-byte value is accepted by at
\* most one of NewParticipantID, NewAssetID and NewLogicID, and the
\* accepting constructor is the one whose kind is the kind nibble of the
\* value's tag.
C27_KindsExclusive ==
    /\ (op \in ConstructorOps /\ err = NoError) => KindOfOp(op) = Kind(Tag(id))
    /\ \A k \in {KindParticipant, KindAsset, KindLogic} :
          (/\ op \in ConstructorOps
           /\ KindOfOp(op) # k
           /\ err = NoError) => ~Constructs(k, id)

(***************************************************************************)
(* The receiver of a decoder that fails.                                   *)
(***************************************************************************)
DecodeOps == UnmarshalOps \cup {"Address.UnmarshalText", "LogicID.Depolorize"}

\* a decoding step that returned an error
FailedDecode == op' \in DecodeOps /\ err' # NoError /\ ~IsPanic(err')

\* C28: a failed decode leaves the receiver unchanged: whenever
\* UnmarshalText on an Identifier, ParticipantID, AssetID, LogicID or Address,
\* or LogicID.Depolorize, returns an error (a hex error at any character
\* position, or a validation error), the receiver holds the value it held
\* before the call.
C28_FailedDecodeKeepsReceiver == [][FailedDecode => id' = id]_vars

(***************************************************************************)
(* The elementary flag operations and makeFlag.                            *)
(***************************************************************************)
\* C29: for an index i in 0..7, getFlag(v, i) is bit i of v and
\* setFlag(v, i, b) returns v with bit i equal to b and every other bit
\* unchanged; for an index above 7 the operation panics and never silently
\* returns false or returns v unchanged.
C29_BitOperations ==
    /\ (op \in {"getFlag", "isBitSet_rev1"} /\ arg.index <= 7) =>
          (err = NoError /\ out = (BitAt(arg.value, arg.index) = 1))
    /\ (op = "setFlag" /\ arg.index <= 7) =>
          /\ err = NoError
          /\ \A j \in 0..7 :
                BitAt(out, j) = IF j = arg.index THEN (IF arg.flag THEN 1 ELSE 0)
                                ELSE BitAt(arg.value, j)
          /\ getFlag(out, arg.index) = arg.flag
    /\ (op \in {"getFlag", "setFlag", "isBitSet_rev1"} /\ arg.index > 7) => IsPanic(err)

\* C30: makeFlag(kind, index, version) panics if and only if index > 7 or
\* version > 15; for every index in 0..7 and version in 0..15 it returns a
\* Flag with that index whose support table maps only the given kind to the
\* given version.
C30_MakeFlagPanics ==
    op = "makeFlag" =>
        IF arg.index > 7 \/ arg.version > 15 THEN IsPanic(err)
        ELSE /\ err = NoError
             /\ out.index = arg.index
             /\ DOMAIN out.support = {arg.kind}
             /\ out.support[arg.kind] = arg.version

====
